---- MODULE Spec2Model ----
(***************************************************************************)
(* State-machine model of the OpenCC binding (src/src/lib.rs): the         *)
(* converter handle OpenCC (a native pointer behind a std::sync::Mutex),   *)
(* its operations new / convert / convert_append / drop run by concurrent  *)
(* workers, and the native OpenCC C library as the environment.            *)
(*                                                                         *)
(*   Spec        one shared handle: new, convert, convert_append, drop     *)
(*   FairSpec    Spec under fair scheduling of the threads inside a call   *)
(*   ErrSpec     the same operations on two independent handles            *)
(*   LegacySpec  the deprecated convert_to_buffer on the shared handle     *)
(*   CapSpec     the buffer sizes of convert_append for every input length *)
(*   MatSpec     generate_static_dictionary / _dictionaries, one caller    *)
(*   RaceSpec    generate_static_dictionary, two callers on one directory  *)
(***************************************************************************)
EXTENDS Integers, Sequences, FiniteSets, TLC

(***************************************************************************)
(* Bounds of the model.                                                    *)
(***************************************************************************)
\* number of concurrent workers sharing the handle
NumWorkers == 2
\* number of characters of an input string
MaxChars == 2
\* number of operations started in one behaviour
MaxCalls == 2

(***************************************************************************)
(* Program constants.                                                      *)
(***************************************************************************)
\* width of libc::size_t in the model; size_t::MAX = 2^SizeBits - 1
SizeBits == 8
SIZE_MAX == (2 ^ SizeBits) - 1
\* the null pointer (is_null())
NULL == 0
\* `opencc_ptr as isize == -1`
SENTINEL == -1
\* U+FFFD REPLACEMENT CHARACTER as UTF-8, pushed by to_string_lossy
REPLACEMENT == <<239, 191, 189>>

Workers == 1 .. NumWorkers
NoWorker == 0
\* the OpenCC value shared by the workers
Handles == {1}
\* the handle slots of the model: the shared value and an independent one
AllHandles == {1, 2}

(***************************************************************************)
(* Strings.  A Rust &str is a sequence of code points; its bytes are its   *)
(* UTF-8 encoding.  The characters used: NUL, 'A' and U+7121.              *)
(***************************************************************************)
CodePoints == {0, 65, 28961}

RECURSIVE SeqsUpTo(_, _)
SeqsUpTo(S, n) ==
    IF n = 0 THEN {<<>>}
    ELSE LET shorter == SeqsUpTo(S, n - 1)
         IN  shorter \cup {Append(s, c) : s \in shorter, c \in S}

\* the input strings handed to convert / convert_append: every string of
\* the characters 'A' and U+7121, and two strings with a NUL byte
InputStrs == SeqsUpTo(CodePoints \ {0}, MaxChars) \cup {<<0>>, <<65, 0>>}

\* char::encode_utf8
EncodeUtf8(cp) ==
    IF cp < 128 THEN <<cp>>
    ELSE IF cp < 2048 THEN <<192 + (cp \div 64), 128 + (cp % 64)>>
    ELSE IF cp < 65536
         THEN <<224 + (cp \div 4096), 128 + ((cp \div 64) % 64), 128 + (cp % 64)>>
         ELSE <<240 + (cp \div 262144), 128 + ((cp \div 4096) % 64),
                128 + ((cp \div 64) % 64), 128 + (cp % 64)>>

\* str::as_bytes: the bytes of a string
RECURSIVE Bytes(_)
Bytes(s) == IF s = <<>> THEN <<>> ELSE EncodeUtf8(Head(s)) \o Bytes(Tail(s))

\* the bytes hold a NUL byte
HasNul(bytes) == \E i \in 1 .. Len(bytes) : bytes[i] = 0

\* variant: only a leading NUL is found
CStringNewErr_FirstByte(bytes) == Len(bytes) > 0 /\ bytes[1] = 0

\* CString::new(bytes).is_err(): memchr(0, bytes) finds a NUL
CStringNewErr(bytes) == \E i \in 1 .. Len(bytes) : bytes[i] = 0

\* continuation byte: (b & 0xC0) == 0x80
IsCont(b) == b \in 128 .. 191

\* the second byte of a three-byte sequence, by lead byte
Second3(b, x) ==
    \/ b = 224 /\ x \in 160 .. 191
    \/ b \in 225 .. 236 /\ x \in 128 .. 191
    \/ b = 237 /\ x \in 128 .. 159
    \/ b \in 238 .. 239 /\ x \in 128 .. 191

\* the second byte of a four-byte sequence, by lead byte
Second4(b, x) ==
    \/ b = 240 /\ x \in 144 .. 191
    \/ b \in 241 .. 243 /\ x \in 128 .. 191
    \/ b = 244 /\ x \in 128 .. 143

\* One step of UTF-8 decoding at index i (core::str Utf8Chunks / validation):
\* ok = a well-formed sequence starts at i; n = bytes consumed (for an
\* ill-formed one: the lead byte and the continuation bytes matched so far).
Utf8Step(b, i) ==
    LET g(j) == IF j <= Len(b) THEN b[j] ELSE 0
        c    == b[i]
    IN  IF c < 128 THEN [ok |-> TRUE, n |-> 1]
        ELSE IF c \in 194 .. 223
             THEN IF IsCont(g(i + 1)) THEN [ok |-> TRUE, n |-> 2]
                  ELSE [ok |-> FALSE, n |-> 1]
        ELSE IF c \in 224 .. 239
             THEN IF ~Second3(c, g(i + 1)) THEN [ok |-> FALSE, n |-> 1]
                  ELSE IF ~IsCont(g(i + 2)) THEN [ok |-> FALSE, n |-> 2]
                  ELSE [ok |-> TRUE, n |-> 3]
        ELSE IF c \in 240 .. 244
             THEN IF ~Second4(c, g(i + 1)) THEN [ok |-> FALSE, n |-> 1]
                  ELSE IF ~IsCont(g(i + 2)) THEN [ok |-> FALSE, n |-> 2]
                  ELSE IF ~IsCont(g(i + 3)) THEN [ok |-> FALSE, n |-> 3]
                  ELSE [ok |-> TRUE, n |-> 4]
        ELSE [ok |-> FALSE, n |-> 1]

\* std::str::from_utf8(b).is_ok()
RECURSIVE ValidFrom(_, _)
ValidFrom(b, i) ==
    IF i > Len(b) THEN TRUE
    ELSE LET st == Utf8Step(b, i)
         IN  st.ok /\ ValidFrom(b, i + st.n)

FromUtf8Ok(b) == ValidFrom(b, 1)

\* CStr::to_string_lossy: well-formed sequences are copied, every maximal
\* ill-formed chunk becomes one U+FFFD.
RECURSIVE LossyFrom(_, _)
LossyFrom(b, i) ==
    IF i > Len(b) THEN <<>>
    ELSE LET st == Utf8Step(b, i)
         IN  (IF st.ok THEN SubSeq(b, i, i + st.n - 1) ELSE REPLACEMENT)
             \o LossyFrom(b, i + st.n)

\* variant: the native bytes are taken as they are (from_utf8_unchecked)
ToStringLossy_Unchecked(b) == b

ToStringLossy(b) == LossyFrom(b, 1)

(***************************************************************************)
(* The native library (environment).  A handle is opened on a dictionary;  *)
(* conversion maps every character through it.  "tw2sp" is the reference   *)
(* dictionary; "corrupt" yields the longest growth (three bytes for one)   *)
(* and an ill-formed sequence; a handle not opened has no entries.         *)
(***************************************************************************)
Dicts == {"tw2sp", "corrupt"}

DictEntry(d, cp) ==
    CASE d = "tw2sp"   -> IF cp = 28961 THEN <<230, 151, 160>> ELSE <<cp>>
      [] d = "corrupt" -> IF cp = 28961 THEN <<230, 151>> ELSE <<230, 151, 160>>
      [] OTHER         -> <<>>

\* the bytes the native conversion produces for the input string s
RECURSIVE NativeConv(_, _)
NativeConv(d, s) ==
    IF s = <<>> THEN <<>> ELSE DictEntry(d, Head(s)) \o NativeConv(d, Tail(s))


(***************************************************************************)
(* The embedded dictionaries (feature "static-dictionaries").  A file's    *)
(* bytes are abstracted to what they are relative to the embedded blob.    *)
(***************************************************************************)
\* enum DefaultConfig
Configs ==
    {"HK2S", "HK2T", "JP2T", "S2T", "S2TW", "S2TWP", "T2HK", "T2JP", "T2TW",
     "T2S", "S2HK", "TW2S", "TW2SP", "TW2T"}

\* variant: every config has the file name of S2T
get_file_name_Same(c) == "s2t.json"

\* DefaultConfig::get_file_name
get_file_name(c) ==
    CASE c = "HK2S" -> "hk2s.json"
      [] c = "HK2T" -> "hk2t.json"
      [] c = "JP2T" -> "jp2t.json"
      [] c = "S2HK" -> "s2hk.json"
      [] c = "S2T" -> "s2t.json"
      [] c = "S2TW" -> "s2tw.json"
      [] c = "S2TWP" -> "s2twp.json"
      [] c = "T2HK" -> "t2hk.json"
      [] c = "T2JP" -> "t2jp.json"
      [] c = "T2S" -> "t2s.json"
      [] c = "T2TW" -> "t2tw.json"
      [] c = "TW2S" -> "tw2s.json"
      [] c = "TW2SP" -> "tw2sp.json"
      [] c = "TW2T" -> "tw2t.json"

\* static DICTIONARIES: the file name of each embedded StaticDictionary
DICTIONARIES ==
    [hk2s_json |-> "hk2s.json",
     hk2t_json |-> "hk2t.json",
     hk_variants_ocd |-> "HKVariants.ocd2",
     hk_variants_rev_ocd |-> "HKVariantsRev.ocd2",
     hk_variants_rev_phrases_ocd |-> "HKVariantsRevPhrases.ocd2",
     jp2t_json |-> "jp2t.json",
     jp_shinjitai_characters_ocd |-> "JPShinjitaiCharacters.ocd2",
     jp_shinjitai_phrases_ocd |-> "JPShinjitaiPhrases.ocd2",
     jp_variants_ocd |-> "JPVariants.ocd2",
     jp_variants_rev_ocd |-> "JPVariantsRev.ocd2",
     s2hk_json |-> "s2hk.json",
     s2t_json |-> "s2t.json",
     s2tw_json |-> "s2tw.json",
     s2twp_json |-> "s2twp.json",
     st_characters_ocd |-> "STCharacters.ocd2",
     st_phrases_ocd |-> "STPhrases.ocd2",
     t2hk_json |-> "t2hk.json",
     t2jp_json |-> "t2jp.json",
     t2s_json |-> "t2s.json",
     t2tw_json |-> "t2tw.json",
     ts_characters_ocd |-> "TSCharacters.ocd2",
     ts_phrases_ocd |-> "TSPhrases.ocd2",
     tw2s_json |-> "tw2s.json",
     tw2sp_json |-> "tw2sp.json",
     tw2t_json |-> "tw2t.json",
     tw_phrases_ocd |-> "TWPhrases.ocd2",
     tw_phrases_rev_ocd |-> "TWPhrasesRev.ocd2",
     tw_variants_ocd |-> "TWVariants.ocd2",
     tw_variants_rev_ocd |-> "TWVariantsRev.ocd2",
     tw_variants_rev_phrases_ocd |-> "TWVariantsRevPhrases.ocd2"]

\* static CONFIG_MAP: config file name -> the files the config needs, in order
CONFIG_MAP ==
    LET D == DICTIONARIES IN
          ("hk2s.json" :> <<D.hk2s_json, D.ts_phrases_ocd, D.hk_variants_rev_phrases_ocd,
                            D.hk_variants_rev_ocd, D.ts_characters_ocd>>)
       @@ ("hk2t.json" :> <<D.hk2t_json, D.hk_variants_rev_phrases_ocd, D.hk_variants_rev_ocd>>)
       @@ ("jp2t.json" :> <<D.jp2t_json, D.jp_shinjitai_phrases_ocd, D.jp_shinjitai_characters_ocd,
                            D.jp_variants_rev_ocd>>)
       @@ ("s2hk.json" :> <<D.s2hk_json, D.st_phrases_ocd, D.st_characters_ocd,
                            D.hk_variants_ocd>>)
       @@ ("s2t.json" :> <<D.s2t_json, D.st_phrases_ocd, D.st_characters_ocd>>)
       @@ ("s2tw.json" :> <<D.s2tw_json, D.st_phrases_ocd, D.st_characters_ocd,
                            D.tw_variants_ocd>>)
       @@ ("s2twp.json" :> <<D.s2twp_json, D.st_phrases_ocd, D.st_characters_ocd,
                             D.tw_phrases_ocd, D.tw_variants_ocd>>)
       @@ ("t2hk.json" :> <<D.t2hk_json, D.hk_variants_ocd>>)
       @@ ("t2jp.json" :> <<D.t2jp_json, D.jp_variants_ocd>>)
       @@ ("t2s.json" :> <<D.t2s_json, D.ts_phrases_ocd, D.ts_characters_ocd>>)
       @@ ("t2tw.json" :> <<D.t2tw_json, D.tw_variants_ocd>>)
       @@ ("tw2s.json" :> <<D.tw2s_json, D.ts_phrases_ocd, D.tw_variants_rev_phrases_ocd,
                            D.tw_variants_rev_ocd, D.ts_characters_ocd>>)
       @@ ("tw2sp.json" :> <<D.tw2sp_json, D.ts_phrases_ocd, D.tw_phrases_rev_ocd,
                             D.tw_variants_rev_phrases_ocd, D.tw_variants_rev_ocd, D.ts_characters_ocd>>)
       @@ ("tw2t.json" :> <<D.tw2t_json, D.tw_variants_rev_phrases_ocd, D.tw_variants_rev_ocd>>)

\* every file name of the registry that a config lists
FileNames == UNION {{CONFIG_MAP[k][i] : i \in 1 .. Len(CONFIG_MAP[k])} : k \in DOMAIN CONFIG_MAP}

(***************************************************************************)
(* State.                                                                  *)
(***************************************************************************)
VARIABLES
    hstate,     \* h -> "none" | "opening" | "live" | "dropped": the OpenCC value
    opencc,     \* h -> the pointer stored in the Mutex (field OpenCC::opencc)
    guard,      \* h -> the worker holding the MutexGuard, or NoWorker
    poisoned,   \* h -> the Mutex's poison flag
    dict,       \* native: h -> the dictionary the native handle was opened on
    opened,     \* native: h -> the value opencc_open returned for the handle
    closed,     \* native: h -> number of opencc_close calls on the pointer
    cError,     \* native: what opencc_error() returns: NULL or a message id
    nativeBufs, \* native: result buffers allocated and not yet freed
    unguarded,  \* a native call took a handle's pointer outside its guard
    calls,      \* conversions started so far
    wk,         \* w -> the worker's position and locals
    dirKind,    \* file system: the target path is "missing" | "dir" | "file"
    files,      \* file system: file name -> what the file in the directory holds
    fault,      \* file system: the I/O operation that fails, or "none"
    mcalls,     \* calls of the generate_* functions started so far
    mz,         \* w -> the worker's position in a generate_* function
    buf         \* the sizes of convert_append's buffer for one input length

convVars == <<hstate, opencc, guard, poisoned, dict, opened, closed, cError,
              nativeBufs, unguarded, calls, wk>>
matVars == <<dirKind, files, fault, mcalls, mz>>
bufVars == <<buf>>
vars == <<convVars, matVars, bufVars>>

\* the paths handed to OpenCC::new, as bytes: "c", "c\0", and a non-UTF-8 byte
Paths == {<<99>>, <<99, 0>>, <<255>>}

\* error messages: a fallback literal of the wrapper, or a native text
NoMsg == [fb |-> "", id |-> 0]
NativeMsg(k) == [fb |-> "", id |-> k]
Literal(s) == [fb |-> s, id |-> 0]

Result(kind, msg, val) == [kind |-> kind, msg |-> msg, val |-> val]
NoResult == Result("none", NoMsg, <<>>)

\* a worker between two calls; its String `output` outlives the call
Idle(output, src, srch, tracked, appOk) ==
    [pc |-> "idle", op |-> "none", h |-> 0, path |-> <<>>, input |-> <<>>,
     output |-> output, pre |-> <<>>, rptr |-> NULL, nout |-> <<>>,
     size |-> 0, cap |-> 0, written |-> 0, err |-> NULL, copy |-> <<>>,
     res |-> NoResult,
     trace |-> <<>>, src |-> src, srch |-> srch, tracked |-> tracked,
     appOk |-> appOk]

\* no OpenCC value exists yet and every worker is between two calls
ConvInit ==
    /\ hstate = [h \in AllHandles |-> "none"]
    /\ opencc = [h \in AllHandles |-> NULL]
    /\ guard = [h \in AllHandles |-> NoWorker]
    /\ poisoned = [h \in AllHandles |-> FALSE]
    /\ dict = [h \in AllHandles |-> "none"]
    /\ opened = [h \in AllHandles |-> NULL]
    /\ closed = [h \in AllHandles |-> 0]
    /\ cError = NULL
    /\ nativeBufs = 0
    /\ unguarded = FALSE
    /\ calls = 0
    /\ wk = [w \in Workers |-> Idle(<<>>, <<>>, 0, FALSE, TRUE)]

\* what a file of the directory holds, relative to the embedded blob
Contents == {"absent", "empty", "partial", "blob", "other"}
\* the I/O operation that fails in this behaviour (a read-only parent, a
\* read-only directory, a full disk), or "none"
Faults == {"none", "mkdir", "create", "write"}

NoFiles == [f \in FileNames |-> "absent"]
\* the previous call of a worker and the file system it left
NoLast == [op |-> "none", cfgs |-> <<>>, ok |-> FALSE, dirKind |-> "missing",
           files |-> NoFiles]
\* a worker outside the generate_* functions
MatIdle(last) ==
    [pc |-> "idle", op |-> "none", cfgs |-> <<>>, ci |-> 0, fi |-> 0,
     res |-> "none", snapKind |-> "missing", snapFiles |-> NoFiles,
     last |-> last]

\* the file system is not used
MatQuiet ==
    /\ dirKind = "missing"
    /\ files = NoFiles
    /\ fault = "none"
    /\ mcalls = 0
    /\ mz = [w \in Workers |-> MatIdle(NoLast)]

\* the sizes of a call: input length n, capacity, returned size, bytes the
\* native call has written, logical length of the Vec
NoBuf == [pc |-> "idle", op |-> "none", n |-> 0, cap |-> 0, size |-> 0,
          written |-> 0, len |-> 0, res |-> "none"]
BufQuiet == buf = NoBuf

Init == ConvInit /\ MatQuiet /\ BufQuiet


(***************************************************************************)
(* Helpers of the operations.                                              *)
(***************************************************************************)
Set(w, r) == wk' = [wk EXCEPT ![w] = r]

\* variant: a lock that never waits for the holder
CanLock_NoWait(h) == TRUE

\* Mutex::lock blocks while another worker holds the guard
CanLock(h) == guard[h] = NoWorker

\* variant: the lock is kept when the holder leaves by a panic
Unlock_NotOnPanic(h, panicking) ==
    /\ guard' = [guard EXCEPT ![h] = IF panicking THEN @ ELSE NoWorker]
    /\ poisoned' = [poisoned EXCEPT ![h] = poisoned[h] \/ panicking]

\* the MutexGuard is dropped: the lock is released, and the Mutex is
\* poisoned when the drop happens while the thread panics
Unlock(h, panicking) ==
    /\ guard' = [guard EXCEPT ![h] = NoWorker]
    /\ poisoned' = [poisoned EXCEPT ![h] = poisoned[h] \/ panicking]

\* variant: only the null check
IsFailedPtr_NullOnly(p) == p = NULL

\* variant: only the sentinel check
IsFailedPtr_SentinelOnly(p) == p = SENTINEL

\* `opencc_ptr.is_null() || opencc_ptr as isize == -1`
IsFailedPtr(p) == p = NULL \/ p = SENTINEL

\* opencc_error() read into a String, with the caller's fallback literal
ErrorMsg(errPtr, fallback) ==
    IF errPtr = NULL THEN Literal(fallback) ELSE NativeMsg(errPtr)

\* variant: the returned size is never taken as a failure
NativeSizeFailed_Never(size) == FALSE

\* `size == size_t::MAX`
NativeSizeFailed(size) == size = SIZE_MAX

\* `Vec::with_capacity(length * 3 + 1)`, in size_t arithmetic
AppendCapacity(length) == (length * 3 + 1) % (2 ^ SizeBits)

\* `buffer.set_len(size)`: the bytes of the buffer the slice then views
BufferView(bytes, size) ==
    [i \in 1 .. (IF size < Len(bytes) THEN size ELSE Len(bytes)) |-> bytes[i]]

\* variant: the converted bytes replace the content of output
PushStr_Overwrite(output, slice) == slice

\* variant: the converted bytes are put in front of output
PushStr_Prepend(output, slice) == slice \o output

\* `output.push_str(result_slice)`
PushStr(output, slice) == output \o slice

\* a native call that takes the handle's pointer is made by w
NativeUse(w, h) == unguarded' = (unguarded \/ guard[h] # w)

(***************************************************************************)
(* OpenCC::new                                                             *)
(***************************************************************************)
\* lines 225-232: to_str() and CString::new on the path
NewCall(w, h, p) ==
    /\ wk[w].pc = "idle"
    /\ hstate[h] = "none"
    /\ IF ~FromUtf8Ok(p) \/ CStringNewErr(p)
       THEN /\ Set(w, [wk[w] EXCEPT !.pc = "done", !.op = "new", !.h = h,
                          !.path = p,
                          !.res = Result("InvalidConfigPath", NoMsg, <<>>)])
            /\ UNCHANGED hstate
       ELSE /\ Set(w, [wk[w] EXCEPT !.pc = "nw_open", !.op = "new", !.h = h,
                          !.path = p])
            /\ hstate' = [hstate EXCEPT ![h] = "opening"]
    /\ UNCHANGED <<opencc, guard, poisoned, dict, opened, closed, cError,
                   nativeBufs, unguarded, calls>>
    /\ UNCHANGED <<matVars, bufVars>>

\* line 235: opencc_open returns null, the -1 sentinel, or a native handle
NewOpen(w) ==
    /\ wk[w].pc = "nw_open"
    /\ LET h == wk[w].h IN
       \E ptr \in {NULL, SENTINEL, h}, d \in Dicts, e \in {NULL, w} :
          /\ Set(w, [wk[w] EXCEPT !.pc = "nw_ret", !.rptr = ptr,
                        !.trace = Append(@, "opencc_open")])
          /\ opened' = [opened EXCEPT ![h] = ptr]
          /\ IF ptr = h
             THEN /\ dict' = [dict EXCEPT ![h] = d]
                  /\ UNCHANGED cError
             ELSE /\ d = "tw2sp"
                  /\ cError' = e
                  /\ UNCHANGED dict
    /\ UNCHANGED <<hstate, opencc, guard, poisoned, closed, nativeBufs,
                   unguarded, calls>>
    /\ UNCHANGED <<matVars, bufVars>>

\* lines 238-253: the pointer check, the diagnostic, the new Mutex
NewRet(w) ==
    /\ wk[w].pc = "nw_ret"
    /\ LET h == wk[w].h IN
       IF IsFailedPtr(wk[w].rptr)
       THEN /\ Set(w, [wk[w] EXCEPT !.pc = "done", !.err = cError,
                          !.trace = Append(@, "opencc_error"),
                          !.res = Result("NewInstanceFailed",
                                     ErrorMsg(cError,
                                        "Unknown error from OpenCC library"),
                                     <<>>)])
            /\ hstate' = [hstate EXCEPT ![h] = "none"]
            /\ UNCHANGED <<opencc, guard, poisoned>>
       ELSE /\ Set(w, [wk[w] EXCEPT !.pc = "done",
                          !.res = Result("Ok", NoMsg, <<>>)])
            /\ hstate' = [hstate EXCEPT ![h] = "live"]
            /\ opencc' = [opencc EXCEPT ![h] = wk[w].rptr]
            /\ guard' = [guard EXCEPT ![h] = NoWorker]
            /\ poisoned' = [poisoned EXCEPT ![h] = FALSE]
    /\ UNCHANGED <<dict, opened, closed, cError, nativeBufs, unguarded, calls>>
    /\ UNCHANGED <<matVars, bufVars>>


(***************************************************************************)
(* OpenCC::convert                                                         *)
(***************************************************************************)
\* lines 257-264: CString::new on the input
ConvertCall(w, h, s) ==
    /\ wk[w].pc = "idle"
    /\ hstate[h] = "live"
    /\ calls < MaxCalls
    /\ calls' = calls + 1
    /\ IF CStringNewErr(Bytes(s))
       THEN Set(w, [wk[w] EXCEPT !.pc = "done", !.op = "convert", !.h = h,
                       !.input = s,
                       !.res = Result("InputContainsNull", NoMsg, <<>>)])
       ELSE Set(w, [wk[w] EXCEPT !.pc = "cv_lock", !.op = "convert", !.h = h,
                       !.input = s])
    /\ UNCHANGED <<hstate, opencc, guard, poisoned, dict, opened, closed,
                   cError, nativeBufs, unguarded>>
    /\ UNCHANGED <<matVars, bufVars>>

\* lines 267-274: lock().unwrap() and the defensive null check
ConvertLock(w) ==
    /\ wk[w].pc = "cv_lock"
    /\ LET h == wk[w].h IN
       /\ CanLock(h)
       /\ IF poisoned[h]
          THEN /\ Set(w, [wk[w] EXCEPT !.pc = "done",
                             !.trace = Append(@, "lock") \o <<"unlock">>,
                             !.res = Result("Panic", NoMsg, <<>>)])
               /\ UNCHANGED guard
          ELSE IF opencc[h] = NULL
          THEN /\ Set(w, [wk[w] EXCEPT !.pc = "done",
                             !.trace = Append(@, "lock") \o <<"unlock">>,
                             !.res = Result("NewInstanceFailed",
                                 Literal("OpenCC instance is not valid or has been closed."),
                                 <<>>)])
               /\ UNCHANGED guard
          ELSE /\ Set(w, [wk[w] EXCEPT !.pc = "cv_native",
                             !.trace = Append(@, "lock")])
               /\ guard' = [guard EXCEPT ![h] = w]
    /\ UNCHANGED <<hstate, opencc, poisoned, dict, opened, closed, cError,
                   nativeBufs, unguarded, calls>>
    /\ UNCHANGED <<matVars, bufVars>>

\* line 276: opencc_convert_utf8 returns a new NUL-terminated buffer, or null
ConvertNative(w) ==
    /\ wk[w].pc = "cv_native"
    /\ LET h == wk[w].h IN
       /\ NativeUse(w, h)
       /\ \E ok \in BOOLEAN, e \in {NULL, w} :
             IF ok
             THEN /\ e = NULL
                  /\ Set(w, [wk[w] EXCEPT !.pc = "cv_ret", !.rptr = 1,
                                !.nout = NativeConv(dict[h], wk[w].input),
                                !.trace = Append(@, "opencc_convert_utf8")])
                  /\ nativeBufs' = nativeBufs + 1
                  /\ UNCHANGED cError
             ELSE /\ Set(w, [wk[w] EXCEPT !.pc = "cv_ret", !.rptr = NULL,
                                !.trace = Append(@, "opencc_convert_utf8")])
                  /\ cError' = e
                  /\ UNCHANGED nativeBufs
    /\ UNCHANGED <<hstate, opencc, guard, poisoned, dict, opened, closed, calls>>
    /\ UNCHANGED <<matVars, bufVars>>

\* lines 278-292: the null check with its diagnostic, else the copy of the
\* native bytes into an owned String; the allocation of the copy may unwind
ConvertRet(w) ==
    /\ wk[w].pc = "cv_ret"
    /\ LET h == wk[w].h IN
       IF wk[w].rptr = NULL
       THEN /\ Set(w, [wk[w] EXCEPT !.pc = "done", !.err = cError,
                          !.trace = Append(@, "opencc_error") \o <<"unlock">>,
                          !.res = Result("ConversionFailed",
                              ErrorMsg(cError,
                                 "Unknown conversion error from OpenCC library"),
                              <<>>)])
            /\ Unlock(h, FALSE)
       ELSE \E unwinds \in BOOLEAN :
               IF unwinds
               THEN /\ Set(w, [wk[w] EXCEPT !.pc = "done",
                                  !.trace = Append(@, "unlock"),
                                  !.res = Result("Panic", NoMsg, <<>>)])
                    /\ Unlock(h, TRUE)
               ELSE /\ Set(w, [wk[w] EXCEPT !.pc = "cv_free",
                                  !.copy = ToStringLossy(wk[w].nout)])
                    /\ UNCHANGED <<guard, poisoned>>
    /\ UNCHANGED <<hstate, opencc, dict, opened, closed, cError, nativeBufs,
                   unguarded, calls>>
    /\ UNCHANGED <<matVars, bufVars>>

\* lines 294-299: opencc_convert_utf8_free, Ok(result), the guard dropped
ConvertFree(w) ==
    /\ wk[w].pc = "cv_free"
    /\ Set(w, [wk[w] EXCEPT !.pc = "done",
                  !.trace = Append(@, "opencc_convert_utf8_free") \o <<"unlock">>,
                  !.res = Result("Ok", NoMsg, wk[w].copy)])
    /\ nativeBufs' = nativeBufs - 1
    /\ Unlock(wk[w].h, FALSE)
    /\ UNCHANGED <<hstate, opencc, dict, opened, closed, cError, unguarded, calls>>
    /\ UNCHANGED <<matVars, bufVars>>

(***************************************************************************)
(* OpenCC::convert_append                                                  *)
(***************************************************************************)
\* lines 338-347: CString::new on the input; `output` is the caller's String
ConvertAppendCall(w, h, s) ==
    /\ wk[w].pc = "idle"
    /\ hstate[h] = "live"
    /\ calls < MaxCalls
    /\ calls' = calls + 1
    /\ IF CStringNewErr(Bytes(s))
       THEN Set(w, [wk[w] EXCEPT !.pc = "done", !.op = "convert_append",
                       !.h = h, !.input = s, !.pre = wk[w].output,
                       !.res = Result("InputContainsNull", NoMsg, <<>>)])
       ELSE Set(w, [wk[w] EXCEPT !.pc = "ap_lock", !.op = "convert_append",
                       !.h = h, !.input = s, !.pre = wk[w].output])
    /\ UNCHANGED <<hstate, opencc, guard, poisoned, dict, opened, closed,
                   cError, nativeBufs, unguarded>>
    /\ UNCHANGED <<matVars, bufVars>>

\* lines 350-360: lock().unwrap(), the defensive null check, the buffer
ConvertAppendLock(w) ==
    /\ wk[w].pc = "ap_lock"
    /\ LET h == wk[w].h IN
       /\ CanLock(h)
       /\ IF poisoned[h]
          THEN /\ Set(w, [wk[w] EXCEPT !.pc = "done",
                             !.trace = Append(@, "lock") \o <<"unlock">>,
                             !.res = Result("Panic", NoMsg, <<>>)])
               /\ UNCHANGED guard
          ELSE IF opencc[h] = NULL
          THEN /\ Set(w, [wk[w] EXCEPT !.pc = "done",
                             !.trace = Append(@, "lock") \o <<"unlock">>,
                             !.res = Result("NewInstanceFailed",
                                 Literal("OpenCC instance is not valid."), <<>>)])
               /\ UNCHANGED guard
          ELSE /\ Set(w, [wk[w] EXCEPT !.pc = "ap_native",
                             !.cap = AppendCapacity(Len(Bytes(wk[w].input))),
                             !.trace = Append(@, "lock")])
               /\ guard' = [guard EXCEPT ![h] = w]
    /\ UNCHANGED <<hstate, opencc, poisoned, dict, opened, closed, cError,
                   nativeBufs, unguarded, calls>>
    /\ UNCHANGED <<matVars, bufVars>>

\* lines 363-364: opencc_convert_utf8_to_buffer writes the converted bytes
\* into the buffer and returns their number, or size_t::MAX
ConvertAppendNative(w) ==
    /\ wk[w].pc = "ap_native"
    /\ LET h == wk[w].h IN
       /\ NativeUse(w, h)
       /\ \E ok \in BOOLEAN, e \in {NULL, w} :
             IF ok
             THEN /\ e = NULL
                  /\ Set(w, [wk[w] EXCEPT !.pc = "ap_ret",
                                !.nout = NativeConv(dict[h], wk[w].input),
                                !.size = Len(NativeConv(dict[h], wk[w].input)),
                                !.trace = Append(@, "opencc_convert_utf8_to_buffer")])
                  /\ UNCHANGED cError
             ELSE /\ Set(w, [wk[w] EXCEPT !.pc = "ap_ret", !.size = SIZE_MAX,
                                !.trace = Append(@, "opencc_convert_utf8_to_buffer")])
                  /\ cError' = e
    /\ UNCHANGED <<hstate, opencc, guard, poisoned, dict, opened, closed,
                   nativeBufs, calls>>
    /\ UNCHANGED <<matVars, bufVars>>

\* lines 367-392: the size_t::MAX check with its diagnostic, set_len,
\* from_utf8, push_str, the guard dropped
ConvertAppendRet(w) ==
    /\ wk[w].pc = "ap_ret"
    /\ LET h == wk[w].h
           view == BufferView(wk[w].nout, wk[w].size)
       IN
       /\ IF NativeSizeFailed(wk[w].size)
          THEN Set(w, [wk[w] EXCEPT !.pc = "done", !.err = cError,
                          !.trace = Append(@, "opencc_error") \o <<"unlock">>,
                          !.res = Result("ConversionFailed",
                              ErrorMsg(cError, "Unknown conversion error"),
                              <<>>)])
          ELSE IF wk[w].size > 0 /\ ~FromUtf8Ok(view)
          THEN Set(w, [wk[w] EXCEPT !.pc = "done",
                          !.trace = Append(@, "unlock"),
                          !.res = Result("InvalidUtf8", NoMsg, <<>>)])
          ELSE Set(w, [wk[w] EXCEPT !.pc = "done",
                          !.output = IF wk[w].size > 0
                                     THEN PushStr(@, view) ELSE @,
                          !.trace = Append(@, "unlock"),
                          !.res = Result("Ok", NoMsg, <<>>)])
       /\ Unlock(h, FALSE)
    /\ UNCHANGED <<hstate, opencc, dict, opened, closed, cError, nativeBufs,
                   unguarded, calls>>
    /\ UNCHANGED <<matVars, bufVars>>


(***************************************************************************)
(* The caller between two calls, and the end of the handle.                *)
(***************************************************************************)
\* The call has returned.  The caller keeps an Ok result of convert as its
\* buffer (`let mut buffer = s;`, lines 29-34); src is the string whose
\* conversion the buffer then stands for: the converted input followed by
\* every NUL-free input appended since on the same handle, and appOk tells
\* whether each of those appends returned Ok.
Return(w) ==
    /\ wk[w].pc = "done"
    /\ LET r == wk[w] IN
       Set(w,
           IF r.op = "convert" /\ r.res.kind = "Ok"
           THEN Idle(r.res.val, r.input, r.h, TRUE, TRUE)
           ELSE IF r.op = "convert_append" /\ r.tracked /\ ~HasNul(Bytes(r.input))
           THEN IF r.h = r.srch
                THEN Idle(r.output, r.src \o r.input, r.srch, TRUE,
                          r.appOk /\ r.res.kind = "Ok")
                ELSE Idle(r.output, <<>>, 0, FALSE, TRUE)
           ELSE Idle(r.output, r.src, r.srch, r.tracked, r.appOk))
    /\ UNCHANGED <<hstate, opencc, guard, poisoned, dict, opened, closed,
                   cError, nativeBufs, unguarded, calls>>
    /\ UNCHANGED <<matVars, bufVars>>

\* no worker is inside a call on the handle: `drop(&mut self)` needs the
\* only reference to it
Unborrowed(h) == \A w \in Workers : wk[w].pc \in {"idle", "done"} \/ wk[w].h # h

\* lines 397-398: get_mut().unwrap() panics on a poisoned Mutex, and
\* opencc_close is called for a non-null pointer
DropCloses(h) == ~poisoned[h] /\ opencc[h] # NULL

\* lines 395-404: Drop for OpenCC
Drop(h) ==
    /\ hstate[h] = "live"
    /\ Unborrowed(h)
    /\ hstate' = [hstate EXCEPT ![h] = "dropped"]
    /\ closed' = [closed EXCEPT ![h] = IF DropCloses(h) THEN @ + 1 ELSE @]
    /\ UNCHANGED <<opencc, guard, poisoned, dict, opened, cError, nativeBufs,
                   unguarded, calls, wk>>
    /\ UNCHANGED <<matVars, bufVars>>

Next ==
    \/ \E w \in Workers, h \in Handles, p \in Paths : NewCall(w, h, p)
    \/ \E w \in Workers : NewOpen(w)
    \/ \E w \in Workers : NewRet(w)
    \/ \E w \in Workers, h \in Handles, s \in InputStrs : ConvertCall(w, h, s)
    \/ \E w \in Workers : ConvertLock(w)
    \/ \E w \in Workers : ConvertNative(w)
    \/ \E w \in Workers : ConvertRet(w)
    \/ \E w \in Workers : ConvertFree(w)
    \/ \E w \in Workers, h \in Handles, s \in InputStrs : ConvertAppendCall(w, h, s)
    \/ \E w \in Workers : ConvertAppendLock(w)
    \/ \E w \in Workers : ConvertAppendNative(w)
    \/ \E w \in Workers : ConvertAppendRet(w)
    \/ \E w \in Workers : Return(w)
    \/ \E h \in Handles : Drop(h)

Spec == Init /\ [][Next]_vars


(***************************************************************************)
(* Properties.                                                             *)
(***************************************************************************)
\* number of occurrences of event e in a trace
Count(tr, e) == Cardinality({i \in 1 .. Len(tr) : tr[i] = e})

\* the native calls that take the handle's pointer or its result buffer
HandleCalls == {"opencc_convert_utf8", "opencc_convert_utf8_to_buffer",
                "opencc_convert_utf8_free"}

\* worker w is between guard acquisition and guard release on handle h
InSection(w, h) ==
    /\ wk[w].h = h
    /\ wk[w].pc \in {"cv_native", "cv_ret", "cv_free", "ap_native", "ap_ret"}

\* in a trace, every native call on the handle lies after the lock and
\* before the unlock
TraceGuarded(tr) ==
    \A i \in 1 .. Len(tr) :
        tr[i] \in HandleCalls =>
            /\ \E j \in 1 .. (i - 1) : tr[j] = "lock"
            /\ \A j \in 1 .. (i - 1) : tr[j] # "unlock"

IsConversion(w) == wk[w].op \in {"convert", "convert_append"}
Finished(w) == wk[w].pc = "done"

\* C1: on a shared handle at most one worker is between guard acquisition
\* and guard release, that worker is the guard's holder, and every native
\* call taking the handle's pointer, with the copy and the free that
\* follow, is made by the holder inside that section.
C1_Serialized ==
    /\ \A h \in Handles :
          /\ \A w1, w2 \in Workers :
                InSection(w1, h) /\ InSection(w2, h) => w1 = w2
          /\ \A w \in Workers : InSection(w, h) <=> guard[h] = w
    /\ ~unguarded
    /\ \A w \in Workers : IsConversion(w) => TraceGuarded(wk[w].trace)

\* one worker is freeing its native buffer inside the section while the
\* other waits for the guard
C1_Witness ==
    \E w1, w2 \in Workers :
        /\ w1 # w2
        /\ wk[w1].pc = "cv_free" /\ guard[wk[w1].h] = w1
        /\ wk[w2].pc \in {"cv_lock", "ap_lock"} /\ wk[w2].h = wk[w1].h

\* C2: every non-null buffer native convert returned has been freed exactly
\* once when convert returns control, on every exit path, and no native
\* buffer is outstanding once every call has returned.
C2_EveryBufferFreed ==
    /\ \A w \in Workers :
          Finished(w) /\ wk[w].op = "convert" /\ wk[w].rptr # NULL =>
              Count(wk[w].trace, "opencc_convert_utf8_free") = 1
    /\ (\A w \in Workers : wk[w].pc \in {"idle", "done"}) => nativeBufs = 0

\* C3: native close is invoked exactly once on the pointer of a handle that
\* was constructed, when the handle is dropped, and never otherwise.
C3_ClosedExactlyOnce ==
    \A h \in Handles :
        /\ hstate[h] = "dropped" => closed[h] = 1
        /\ hstate[h] # "dropped" => closed[h] = 0
        /\ closed[h] > 0 => \A w \in Workers : ~InSection(w, h)


\* C4: new fails with InvalidConfigPath, without calling native open, when
\* the path is not UTF-8 or holds a NUL byte; otherwise it calls native
\* open exactly once and fails with NewInstanceFailed(msg) exactly when the
\* returned pointer is null or -1, msg being the text opencc_error()
\* returned or the fallback literal when that was null; else it returns a
\* handle.
C4_NewOutcome ==
    \A w \in Workers :
        Finished(w) /\ wk[w].op = "new" =>
            LET r == wk[w] IN
            IF ~FromUtf8Ok(r.path) \/ HasNul(r.path)
            THEN r.res.kind = "InvalidConfigPath" /\ r.trace = <<>>
            ELSE /\ Count(r.trace, "opencc_open") = 1
                 /\ r.res.kind = "NewInstanceFailed" <=> r.rptr \in {NULL, SENTINEL}
                 /\ r.res.kind = "NewInstanceFailed" =>
                        r.res.msg = IF r.err = NULL
                                    THEN Literal("Unknown error from OpenCC library")
                                    ELSE NativeMsg(r.err)
                 /\ r.rptr \notin {NULL, SENTINEL} =>
                        /\ r.res.kind = "Ok"
                        /\ hstate[r.h] \in {"live", "dropped"}
                        /\ opencc[r.h] = r.rptr

\* new got the -1 sentinel from native open and no text from opencc_error()
C4_Witness ==
    \E w \in Workers :
        /\ Finished(w) /\ wk[w].op = "new"
        /\ wk[w].rptr = SENTINEL
        /\ wk[w].res = Result("NewInstanceFailed",
                              Literal("Unknown error from OpenCC library"), <<>>)

\* C5: the pointer stored in a constructed handle is non-null, is not the
\* -1 sentinel and is the value native open returned; the null-pointer
\* branch of convert and convert_append is never taken, so neither returns
\* NewInstanceFailed.
C5_PointerValid ==
    /\ \A h \in Handles :
          hstate[h] \in {"live", "dropped"} =>
              opencc[h] # NULL /\ opencc[h] # SENTINEL /\ opencc[h] = opened[h]
    /\ \A w \in Workers :
          IsConversion(w) => wk[w].res.kind # "NewInstanceFailed"

\* a conversion has passed the null-pointer check and returned Ok after
\* another conversion on the same handle
C5_Witness ==
    \E w \in Workers :
        /\ Finished(w) /\ IsConversion(w) /\ wk[w].res.kind = "Ok"
        /\ calls = 2
        /\ Count(wk[w].trace, "lock") = 1

\* C6: convert and convert_append fail with InputContainsNull on an input
\* with a NUL byte, before the guard is acquired and without a native call.
C6_NulRejected ==
    \A w \in Workers :
        IsConversion(w) /\ HasNul(Bytes(wk[w].input)) =>
            /\ wk[w].pc = "done"
            /\ wk[w].res.kind = "InputContainsNull"
            /\ wk[w].trace = <<>>
            /\ \A h \in Handles : guard[h] # w

\* convert_append was given "A\0" while the other worker holds the guard
C6_Witness ==
    \E w1, w2 \in Workers :
        /\ Finished(w1) /\ wk[w1].op = "convert_append"
        /\ wk[w1].input = <<65, 0>>
        /\ wk[w1].res.kind = "InputContainsNull"
        /\ guard[wk[w1].h] = w2

\* C7: convert returns ConversionFailed exactly when native convert
\* returned null, convert_append exactly when native convert_into returned
\* size_t::MAX, and neither returns Ok on a native failure signal.
C7_FailureSignals ==
    \A w \in Workers :
        Finished(w) =>
            LET r == wk[w] IN
            /\ r.op = "convert" =>
                  /\ r.res.kind = "ConversionFailed" <=>
                        (Count(r.trace, "opencc_convert_utf8") = 1 /\ r.rptr = NULL)
                  /\ r.res.kind = "Ok" => r.rptr # NULL
            /\ r.op = "convert_append" =>
                  /\ r.res.kind = "ConversionFailed" <=>
                        (Count(r.trace, "opencc_convert_utf8_to_buffer") = 1
                         /\ r.size = SIZE_MAX)
                  /\ r.res.kind = "Ok" => r.size # SIZE_MAX

\* both native failure signals have been reported as ConversionFailed
C7_Witness ==
    \E w1, w2 \in Workers :
        /\ Finished(w1) /\ wk[w1].op = "convert" /\ wk[w1].rptr = NULL
        /\ wk[w1].res.kind = "ConversionFailed"
        /\ Finished(w2) /\ wk[w2].op = "convert_append" /\ wk[w2].size = SIZE_MAX
        /\ wk[w2].res.kind = "ConversionFailed"

\* C8: convert_append never alters what output already held: on Ok the new
\* output is the old one followed by the first `size` bytes the native
\* call wrote, on any error it is the old one.
C8_AppendFrame ==
    \A w \in Workers :
        wk[w].op = "convert_append" =>
            LET r == wk[w] IN
            IF Finished(w) /\ r.res.kind = "Ok"
            THEN /\ r.size <= Len(r.nout)
                 /\ r.output = r.pre \o SubSeq(r.nout, 1, r.size)
            ELSE r.output = r.pre

\* three converted bytes were appended to a non-empty output
C8_Witness ==
    \E w \in Workers :
        /\ Finished(w) /\ wk[w].op = "convert_append" /\ wk[w].res.kind = "Ok"
        /\ wk[w].pre # <<>>
        /\ wk[w].size = 3
        /\ Len(wk[w].output) = Len(wk[w].pre) + 3


\* a call of convert on a NUL-free string has returned
ConvertReturned(w) ==
    Finished(w) /\ wk[w].op = "convert" /\ ~HasNul(Bytes(wk[w].input))

\* C9 as stated: convert of any NUL-free string on a constructed handle is
\* Ok and its result is valid UTF-8.
C9_AlwaysOk ==
    \A w \in Workers :
        ConvertReturned(w) =>
            wk[w].res.kind = "Ok" /\ FromUtf8Ok(wk[w].res.val)

\* C9: convert of a NUL-free string returns Ok exactly when native convert
\* returned a non-null buffer and that buffer was copied and freed, every
\* Ok result is valid UTF-8 (empty for the empty string), and the only
\* error it returns is ConversionFailed, when native convert returned
\* null; otherwise the call unwinds (poisoned guard, or the copy).
C9_OkWhenNativeSucceeds ==
    \A w \in Workers :
        ConvertReturned(w) =>
            LET r == wk[w] IN
            /\ r.res.kind \in {"Ok", "ConversionFailed", "Panic"}
            /\ r.res.kind = "Ok" <=>
                  (r.rptr # NULL /\ Count(r.trace, "opencc_convert_utf8_free") = 1)
            /\ r.res.kind = "Ok" => FromUtf8Ok(r.res.val)
            /\ (r.res.kind = "Ok" /\ r.input = <<>>) => r.res.val = <<>>
            /\ r.res.kind = "ConversionFailed" <=>
                  (Count(r.trace, "opencc_convert_utf8") = 1 /\ r.rptr = NULL)

\* convert returned Ok on native bytes that were not well-formed UTF-8
C9_Witness ==
    \E w \in Workers :
        /\ ConvertReturned(w) /\ wk[w].res.kind = "Ok"
        /\ ~FromUtf8Ok(wk[w].nout)
        /\ wk[w].res.val # <<>>

\* what convert returns for the string s on a handle opened on d, when Ok
ConvertValue(d, s) == ToStringLossy(NativeConv(d, s))

\* the buffer of worker w started as an Ok result of convert and has had
\* NUL-free strings appended on the same handle; Target is the string
\* whose conversion the claim says it holds
Chained(w) ==
    /\ wk[w].tracked
    /\ \/ wk[w].pc = "idle"
       \/ /\ Finished(w) /\ wk[w].op = "convert_append"
          /\ wk[w].h = wk[w].srch /\ ~HasNul(Bytes(wk[w].input))

Target(w) == IF wk[w].pc = "idle" THEN wk[w].src ELSE wk[w].src \o wk[w].input

AllAppendsOk(w) ==
    wk[w].appOk /\ (wk[w].pc = "idle" \/ wk[w].res.kind = "Ok")

\* C10 as stated: after convert_append(t, buf) on a buffer that held the Ok
\* result of convert(s), buf equals convert(s + t), for every NUL-free t
\* on which the native conversion did not signal failure.
C10_AppendCommutes ==
    \A w \in Workers :
        (/\ Chained(w) /\ Finished(w) /\ wk[w].appOk
         /\ wk[w].res.kind \notin {"ConversionFailed", "Panic"})
        => wk[w].output = ConvertValue(dict[wk[w].srch], Target(w))

\* C10: after convert_append(t, buf) returned Ok on a buffer that held the
\* Ok result of convert(s), buf equals the Ok result of convert(s + t),
\* also the one another worker obtained from the handle.
C10_AppendCommutesWhenOk ==
    \A w \in Workers :
        Chained(w) /\ AllAppendsOk(w) =>
            /\ wk[w].output = ConvertValue(dict[wk[w].srch], Target(w))
            /\ \A v \in Workers :
                  (/\ ConvertReturned(v) /\ wk[v].res.kind = "Ok"
                   /\ wk[v].h = wk[w].srch /\ wk[v].input = Target(w))
                  => wk[v].res.val = wk[w].output

\* a non-empty string was appended with Ok onto a non-empty Ok result of
\* convert
C10_Witness ==
    \E w \in Workers :
        /\ Chained(w) /\ AllAppendsOk(w)
        /\ Finished(w) /\ wk[w].input # <<>> /\ wk[w].src # <<>>
        /\ wk[w].pre # <<>> /\ wk[w].size > 0
        /\ wk[w].output = ConvertValue(dict[wk[w].srch], wk[w].src \o wk[w].input)


(***************************************************************************)
(* generate_static_dictionary and generate_static_dictionaries.            *)
(***************************************************************************)
\* number of calls of the two functions in one behaviour
MaxMatCalls == 2
\* number of configs in the slice handed to generate_static_dictionaries
MaxConfigs == 2

\* the configs of those slices: their file lists overlap
ListConfigs == {"T2S", "TW2SP"}
ConfigLists == SeqsUpTo(ListConfigs, MaxConfigs)
\* the files that may be in the directory before the first call, and what
\* they may hold
Seeded == {"t2s.json", "TSPhrases.ocd2", "TSCharacters.ocd2"}
SeedContents == {"absent", "blob", "other"}
\* the one caller of the sequential behaviours
Solo == {1}

SetM(w, r) == mz' = [mz EXCEPT ![w] = r]

\* line 644: CONFIG_MAP.get(config_filename) is Some(..)
Supported(c) == get_file_name(c) \in DOMAIN CONFIG_MAP
\* the StaticDictionary names of config c, in the order of the slice
Manifest(c) == CONFIG_MAP[get_file_name(c)]

\* variant: no file is ever found
Exists_Never(fl, f) == FALSE
\* line 648: output_path.exists()
Exists(fl, f) == fl[f] # "absent"

\* variant: write_all leaves the new file as File::create made it
WriteAll_Nothing(f) == "empty"
\* line 650: file.write_all(data.1) fills the file with the embedded bytes
WriteAll(f) == "blob"

\* variant: the failure of a file is swallowed
Propagates_Never(ok) == FALSE
\* lines 649-651 and 704: `?` returns the Err of a failed step
Propagates(ok) == ~ok

\* lines 663-668: generate_static_dictionary(path, config) is entered
GenerateStaticDictionary(w, c) ==
    /\ mz[w].pc = "idle"
    /\ mcalls < MaxMatCalls
    /\ mcalls' = mcalls + 1
    /\ SetM(w, [mz[w] EXCEPT !.pc = "chk_dir", !.op = "one", !.cfgs = <<c>>,
                   !.ci = 1, !.fi = 1, !.snapKind = dirKind,
                   !.snapFiles = files])
    /\ UNCHANGED <<dirKind, files, fault, convVars, bufVars>>

\* lines 686-691: generate_static_dictionaries(path, configs) is entered
GenerateStaticDictionaries(w, cs) ==
    /\ mz[w].pc = "idle"
    /\ mcalls < MaxMatCalls
    /\ mcalls' = mcalls + 1
    /\ SetM(w, [mz[w] EXCEPT !.pc = "chk_dir", !.op = "many", !.cfgs = cs,
                   !.ci = 1, !.fi = 1, !.snapKind = dirKind,
                   !.snapFiles = files])
    /\ UNCHANGED <<dirKind, files, fault, convVars, bufVars>>

\* lines 669-679 and 692-701: path.exists(), path.is_dir(), create_dir_all
MatCheckDir(w) ==
    /\ mz[w].pc = "chk_dir"
    /\ IF dirKind = "file"
       THEN /\ SetM(w, [mz[w] EXCEPT !.pc = "done", !.res = "NotADirectory"])
            /\ UNCHANGED dirKind
       ELSE IF dirKind = "missing" /\ fault = "mkdir"
       THEN /\ SetM(w, [mz[w] EXCEPT !.pc = "done", !.res = "CannotCreate"])
            /\ UNCHANGED dirKind
       ELSE /\ SetM(w, [mz[w] EXCEPT !.pc = "inner"])
            /\ dirKind' = "dir"
    /\ UNCHANGED <<files, fault, mcalls, convVars, bufVars>>

\* lines 703-707 and 681: the next config of the slice goes to
\* generate_static_dictionary_inner, or Ok(()) when none is left;
\* lines 642-644 and 654-656: the lookup of the config's file list
MatInner(w) ==
    /\ mz[w].pc = "inner"
    /\ IF mz[w].ci > Len(mz[w].cfgs)
       THEN SetM(w, [mz[w] EXCEPT !.pc = "done", !.res = "Ok"])
       ELSE IF ~Supported(mz[w].cfgs[mz[w].ci])
       THEN SetM(w, [mz[w] EXCEPT !.pc = "done", !.res = "Unsupported"])
       ELSE SetM(w, [mz[w] EXCEPT !.pc = "exists", !.fi = 1])
    /\ UNCHANGED <<dirKind, files, fault, mcalls, convVars, bufVars>>

\* lines 645-648 and 658: the next file of the list and the exists() test,
\* or Ok(()) of the inner function when the list is done
MatExists(w) ==
    /\ mz[w].pc = "exists"
    /\ LET m == Manifest(mz[w].cfgs[mz[w].ci]) IN
       IF mz[w].fi > Len(m)
       THEN SetM(w, [mz[w] EXCEPT !.pc = "inner", !.ci = @ + 1])
       ELSE IF Exists(files, m[mz[w].fi])
       THEN SetM(w, [mz[w] EXCEPT !.fi = @ + 1])
       ELSE SetM(w, [mz[w] EXCEPT !.pc = "create"])
    /\ UNCHANGED <<dirKind, files, fault, mcalls, convVars, bufVars>>

\* line 649: File::create(output_path)? makes the file, or empties the one
\* that is there by now
MatCreate(w) ==
    /\ mz[w].pc = "create"
    /\ LET f == Manifest(mz[w].cfgs[mz[w].ci])[mz[w].fi] IN
       IF fault = "create"
       THEN /\ IF Propagates(FALSE)
               THEN SetM(w, [mz[w] EXCEPT !.pc = "done", !.res = "Io"])
               ELSE SetM(w, [mz[w] EXCEPT !.pc = "exists", !.fi = @ + 1])
            /\ UNCHANGED files
       ELSE /\ SetM(w, [mz[w] EXCEPT !.pc = "write"])
            /\ files' = [files EXCEPT ![f] = "empty"]
    /\ UNCHANGED <<dirKind, fault, mcalls, convVars, bufVars>>

\* lines 650-651: file.write_all(data.1)? and file.flush()?
MatWrite(w) ==
    /\ mz[w].pc = "write"
    /\ LET f == Manifest(mz[w].cfgs[mz[w].ci])[mz[w].fi] IN
       IF fault = "write"
       THEN /\ IF Propagates(FALSE)
               THEN SetM(w, [mz[w] EXCEPT !.pc = "done", !.res = "Io"])
               ELSE SetM(w, [mz[w] EXCEPT !.pc = "exists", !.fi = @ + 1])
            /\ files' = [files EXCEPT ![f] = "partial"]
       ELSE /\ SetM(w, [mz[w] EXCEPT !.pc = "exists", !.fi = @ + 1])
            /\ files' = [files EXCEPT ![f] = WriteAll(f)]
    /\ UNCHANGED <<dirKind, fault, mcalls, convVars, bufVars>>

\* the call has returned; the caller remembers it and what it left
MatReturn(w) ==
    /\ mz[w].pc = "done"
    /\ SetM(w, MatIdle([op |-> mz[w].op, cfgs |-> mz[w].cfgs,
                        ok |-> mz[w].res = "Ok", dirKind |-> dirKind,
                        files |-> files]))
    /\ UNCHANGED <<dirKind, files, fault, mcalls, convVars, bufVars>>

\* any target path, any failing operation, any content of the seeded files
MatInit ==
    /\ ConvInit
    /\ BufQuiet
    /\ mcalls = 0
    /\ mz = [w \in Workers |-> MatIdle(NoLast)]
    /\ fault \in Faults
    /\ dirKind \in {"missing", "dir", "file"}
    /\ files \in {[f \in FileNames |-> IF f \in Seeded THEN s[f] ELSE "absent"] :
                     s \in [Seeded -> SeedContents]}
    /\ dirKind # "dir" => files = NoFiles

\* one caller at a time
MatNext ==
    \/ \E w \in Solo, c \in Configs : GenerateStaticDictionary(w, c)
    \/ \E w \in Solo, cs \in ConfigLists : GenerateStaticDictionaries(w, cs)
    \/ \E w \in Solo : MatCheckDir(w)
    \/ \E w \in Solo : MatInner(w)
    \/ \E w \in Solo : MatExists(w)
    \/ \E w \in Solo : MatCreate(w)
    \/ \E w \in Solo : MatWrite(w)
    \/ \E w \in Solo : MatReturn(w)

MatSpec == MatInit /\ [][MatNext]_vars


(***************************************************************************)
(* Properties of the two generate_* functions.                             *)
(***************************************************************************)
\* the call of worker w has returned
MatDone(w) == mz[w].pc = "done"

\* the file names of config c
ManifestFiles(c) == {Manifest(c)[i] : i \in 1 .. Len(Manifest(c))}

\* generate_static_dictionary_inner run to its end on the files fl: the
\* files it leaves and whether it returns Ok (lines 645-658)
RECURSIVE InnerResult(_, _)
InnerResult(fl, names) ==
    IF names = <<>> THEN [files |-> fl, ok |-> TRUE]
    ELSE LET f == Head(names) IN
         IF fl[f] # "absent" THEN InnerResult(fl, Tail(names))
         ELSE IF fault = "create" THEN [files |-> fl, ok |-> FALSE]
         ELSE IF fault = "write"
              THEN [files |-> [fl EXCEPT ![f] = "partial"], ok |-> FALSE]
              ELSE InnerResult([fl EXCEPT ![f] = "blob"], Tail(names))

\* generate_static_dictionary(dir, c) run to its end (lines 669-681)
OneResult(kind, fl, c) ==
    IF kind = "file" \/ (kind = "missing" /\ fault = "mkdir")
    THEN [dirKind |-> kind, files |-> fl, ok |-> FALSE]
    ELSE LET r == InnerResult(fl, Manifest(c))
         IN  [dirKind |-> "dir", files |-> r.files, ok |-> r.ok]

\* generate_static_dictionary called for each config of cs in order, up to
\* the first call that fails
RECURSIVE EachInOrder(_, _, _)
EachInOrder(kind, fl, cs) ==
    IF cs = <<>> THEN [dirKind |-> kind, files |-> fl, ok |-> TRUE]
    ELSE LET r == OneResult(kind, fl, Head(cs)) IN
         IF r.ok THEN EachInOrder(r.dirKind, r.files, Tail(cs)) ELSE r

\* what the returned call of w has left
Outcome(w) == [dirKind |-> dirKind, files |-> files, ok |-> mz[w].res = "Ok"]

\* w has run generate_static_dictionary twice in a row for one config
RanTwice(w) ==
    /\ MatDone(w)
    /\ mz[w].op = "one"
    /\ mz[w].last.op = "one"
    /\ mz[w].last.cfgs = mz[w].cfgs

\* the second run has left what the first run left
SameAsOnce(w) == files = mz[w].last.files /\ dirKind = mz[w].last.dirKind

\* every file that was there when the call of w began holds what it held
KeepsExisting(w) ==
    \A f \in FileNames :
        mz[w].snapFiles[f] # "absent" => files[f] = mz[w].snapFiles[f]

\* C11 as stated: generate_static_dictionary is idempotent for any initial
\* directory state (the second of two runs for one config leaves the files
\* the first run left), and it never changes a file that already existed.
C11_Idempotent ==
    \A w \in Workers :
        /\ mz[w].pc # "idle" => KeepsExisting(w)
        /\ RanTwice(w) => SameAsOnce(w)

\* C11: generate_static_dictionary never changes a file that already
\* existed; the second of two runs for one config leaves the files the first
\* run left unless a write failed, and after a first run that returned Ok it
\* returns Ok.
C11_IdempotentAfterOk ==
    \A w \in Workers :
        /\ mz[w].pc # "idle" => KeepsExisting(w)
        /\ RanTwice(w) /\ (mz[w].last.ok \/ fault # "write") => SameAsOnce(w)
        /\ RanTwice(w) /\ mz[w].last.ok => mz[w].res = "Ok"

\* a second run after a first run that wrote a file and kept a foreign one
C11_Witness ==
    /\ RanTwice(1)
    /\ mz[1].last.ok
    /\ mz[1].res = "Ok"
    /\ \E f \in ManifestFiles(mz[1].cfgs[1]) : files[f] = "other"
    /\ \E f \in ManifestFiles(mz[1].cfgs[1]) \ Seeded : files[f] = "blob"

\* the native opencc_open on dir/file_name(c): it succeeds exactly when
\* every file of the config is in the directory with the embedded bytes
OpenSucceeds(c) ==
    /\ dirKind = "dir"
    /\ \A f \in ManifestFiles(c) : files[f] = "blob"

\* no file of the config held foreign bytes when the call of w began
CleanBefore(w) ==
    \A f \in ManifestFiles(mz[w].cfgs[1]) : mz[w].snapFiles[f] \in {"absent", "blob"}

\* C12 as stated: after generate_static_dictionary(dir, c) has returned Ok,
\* from any initial state of dir, opening dir/file_name(c) succeeds.
C12_OpenAfterGenerate ==
    \A w \in Workers :
        MatDone(w) /\ mz[w].op = "one" /\ mz[w].res = "Ok"
            => OpenSucceeds(mz[w].cfgs[1])

\* C12: after generate_static_dictionary(dir, c) has returned Ok, every file
\* of c is in the directory, and opening dir/file_name(c) succeeds when no
\* file of c held other bytes than the embedded ones before the call.
C12_OpenAfterGenerateClean ==
    \A w \in Workers :
        MatDone(w) /\ mz[w].op = "one" /\ mz[w].res = "Ok"
            => /\ dirKind = "dir"
               /\ \A f \in ManifestFiles(mz[w].cfgs[1]) : files[f] # "absent"
               /\ CleanBefore(w) => OpenSucceeds(mz[w].cfgs[1])

\* TW2SP generated into a missing directory, then openable
C12_Witness ==
    /\ MatDone(1)
    /\ mz[1].op = "one"
    /\ mz[1].cfgs = <<"TW2SP">>
    /\ mz[1].res = "Ok"
    /\ mz[1].snapKind = "missing"
    /\ OpenSucceeds("TW2SP")

\* C13: generate_static_dictionaries(dir, configs) on a non-empty slice
\* returns and leaves what generate_static_dictionary called for each config
\* in order up to the first failure returns and leaves; both fail and write
\* nothing when dir is not a directory, both create a missing dir.
C13_ManyIsEachInOrder ==
    \A w \in Workers :
        MatDone(w) =>
            /\ mz[w].op = "one" =>
                   Outcome(w) = OneResult(mz[w].snapKind, mz[w].snapFiles,
                                          mz[w].cfgs[1])
            /\ mz[w].op = "many" /\ mz[w].cfgs # <<>> =>
                   Outcome(w) = EachInOrder(mz[w].snapKind, mz[w].snapFiles,
                                            mz[w].cfgs)
            /\ mz[w].snapKind = "file" =>
                   /\ mz[w].res # "Ok"
                   /\ files = mz[w].snapFiles
                   /\ dirKind = "file"
            /\ mz[w].snapKind = "missing" /\ fault # "mkdir" => dirKind = "dir"

\* a slice of two configs stopped by a failure in the second config after
\* the first returned Ok
C13_Witness ==
    /\ MatDone(1)
    /\ mz[1].op = "many"
    /\ Len(mz[1].cfgs) = 2
    /\ mz[1].res = "Io"
    /\ mz[1].ci = 2

\* get_file_name maps the configs one-to-one onto the keys of CONFIG_MAP
FileNamesAreKeys ==
    /\ Cardinality(Configs) = Cardinality(DOMAIN CONFIG_MAP)
    /\ \A c \in Configs : get_file_name(c) \in DOMAIN CONFIG_MAP
    /\ \A c1, c2 \in Configs : get_file_name(c1) = get_file_name(c2) => c1 = c2

\* C14: the file name of each of the 14 configs is a key of CONFIG_MAP, the
\* mapping is injective, and no call fails with the unsupported-config error.
C14_FileNameIsKey ==
    /\ FileNamesAreKeys
    /\ \A w \in Workers : mz[w].res # "Unsupported"

\* the lookup of the last config of the enum has found its file list
C14_Witness ==
    /\ mz[1].pc = "exists"
    /\ mz[1].cfgs = <<"TW2T">>
    /\ mz[1].fi = 1


(***************************************************************************)
(* The temporary buffer of convert_append over the whole range of input    *)
(* lengths.  The input is abstracted to its byte length n, the native      *)
(* output to the number of bytes it writes.                                *)
(***************************************************************************)
\* isize::MAX: the largest byte length of a str and of an allocation
ISIZE_MAX == (2 ^ (SizeBits - 1)) - 1
\* input_ref.len()
Lengths == 0 .. ISIZE_MAX

\* the smaller of two numbers
Min(a, b) == IF a < b THEN a ELSE b

\* lines 339-360: `length * 3 + 1` in usize and Vec::with_capacity.  The
\* product panics when the build checks overflow and wraps when it does not;
\* with_capacity panics for more than isize::MAX bytes.
ConvertAppendBuffer(n, checked) ==
    /\ buf.pc = "idle"
    /\ IF (checked /\ n * 3 + 1 > SIZE_MAX) \/ AppendCapacity(n) > ISIZE_MAX
       THEN buf' = [buf EXCEPT !.pc = "done", !.op = "convert_append",
                       !.n = n, !.res = "Panic"]
       ELSE buf' = [buf EXCEPT !.pc = "native", !.op = "convert_append",
                       !.n = n, !.cap = AppendCapacity(n)]
    /\ UNCHANGED <<convVars, matVars>>

\* lines 363-364: opencc_convert_utf8_to_buffer writes at most 3 * n bytes
\* and a trailing NUL and returns their number, or returns size_t::MAX
ConvertAppendWrite(size) ==
    /\ buf.pc = "native"
    /\ size <= Min(3 * buf.n, SIZE_MAX - 1) \/ size = SIZE_MAX
    /\ buf' = [buf EXCEPT !.pc = "set_len", !.size = size,
                  !.written = IF size = SIZE_MAX THEN 0 ELSE size + 1]
    /\ UNCHANGED <<convVars, matVars>>

\* lines 367-383: the size_t::MAX test, then buffer.set_len(size)
ConvertAppendSetLen ==
    /\ buf.pc = "set_len"
    /\ buf' = IF NativeSizeFailed(buf.size)
              THEN [buf EXCEPT !.pc = "done", !.res = "ConversionFailed"]
              ELSE [buf EXCEPT !.pc = "done", !.res = "Returned",
                       !.len = IF buf.size > 0 THEN buf.size ELSE 0]
    /\ UNCHANGED <<convVars, matVars>>

CapNext ==
    \/ \E n \in Lengths, checked \in BOOLEAN : ConvertAppendBuffer(n, checked)
    \/ \E size \in 0 .. SIZE_MAX : ConvertAppendWrite(size)
    \/ ConvertAppendSetLen

CapSpec == Init /\ [][CapNext]_vars

\* C15: in convert_append, for every input byte length n, the buffer handed
\* to the native call has capacity exactly 3 * n + 1, not wrapped modulo
\* 2^SizeBits, and neither the bytes the native call writes nor the length set
\* from the returned size exceed that capacity.
C15_CapacityExact ==
    buf.pc \in {"native", "set_len", "done"} /\ buf.res # "Panic" =>
        /\ buf.cap = 3 * buf.n + 1
        /\ buf.written <= buf.cap
        /\ buf.len <= buf.cap


(***************************************************************************)
(* Progress of the conversions on the shared handle.                       *)
(***************************************************************************)
\* a step of worker w inside a call: the thread is scheduled, the native
\* call returns, the lock is granted once it is free
WorkerStep(w) ==
    \/ NewOpen(w) \/ NewRet(w)
    \/ ConvertLock(w) \/ ConvertNative(w) \/ ConvertRet(w) \/ ConvertFree(w)
    \/ ConvertAppendLock(w) \/ ConvertAppendNative(w) \/ ConvertAppendRet(w)

\* the behaviours of Spec in which no thread inside a call is starved
FairSpec == Spec /\ \A w \in Workers : WF_vars(WorkerStep(w))

\* worker w is inside convert or convert_append
Converting(w) == IsConversion(w) /\ ~Finished(w)

\* C16: the guard is held only by a worker inside its guarded section, so it
\* is released on every exit path of convert and convert_append, and under
\* fair scheduling every worker that has started a conversion on the shared
\* handle gets past the lock and returns: no worker blocks forever.
C16_NoWorkerBlocksForever ==
    /\ [](\A h \in Handles, w \in Workers : guard[h] = w => InSection(w, h))
    /\ \A w \in Workers : Converting(w) ~> Finished(w)

\* a worker waits for the guard while the holder is about to leave convert
\* by its error return
C16_Witness ==
    \E w1, w2 \in Workers :
        /\ wk[w1].pc = "cv_ret" /\ wk[w1].rptr = NULL /\ guard[wk[w1].h] = w1
        /\ wk[w2].pc \in {"cv_lock", "ap_lock"} /\ wk[w2].h = wk[w1].h


(***************************************************************************)
(* Two independent OpenCC values.  opencc_error() reads the one last-error *)
(* text of the native library, whichever call wrote it.                    *)
(***************************************************************************)
\* the config path and the input of these behaviours
OnePath == {<<99>>}
OneStr == {<<65>>}

ErrNext ==
    \/ \E w \in Workers, h \in AllHandles, p \in OnePath : NewCall(w, h, p)
    \/ \E w \in Workers : NewOpen(w)
    \/ \E w \in Workers : NewRet(w)
    \/ \E w \in Workers, h \in AllHandles, s \in OneStr : ConvertCall(w, h, s)
    \/ \E w \in Workers : ConvertLock(w)
    \/ \E w \in Workers : ConvertNative(w)
    \/ \E w \in Workers : ConvertRet(w)
    \/ \E w \in Workers : ConvertFree(w)
    \/ \E w \in Workers, h \in AllHandles, s \in OneStr : ConvertAppendCall(w, h, s)
    \/ \E w \in Workers : ConvertAppendLock(w)
    \/ \E w \in Workers : ConvertAppendNative(w)
    \/ \E w \in Workers : ConvertAppendRet(w)
    \/ \E w \in Workers : Return(w)
    \/ \E h \in AllHandles : Drop(h)

ErrSpec == Init /\ [][ErrNext]_vars

\* C17: the message of a NewInstanceFailed or ConversionFailed that worker w
\* gets for a failed native call is the diagnostic of that call (the text the
\* failing call of w wrote, or the fallback when there is none), never the
\* text written by a native call of another worker on another handle or in
\* another construction.
C17_OwnDiagnostic ==
    \A w \in Workers :
        Finished(w) /\ wk[w].res.kind \in {"NewInstanceFailed", "ConversionFailed"}
            => wk[w].res.msg.id \in {0, w}


(***************************************************************************)
(* generate_static_dictionary run by two workers on one directory.         *)
(***************************************************************************)
RaceNext ==
    \/ \E w \in Workers, c \in ListConfigs : GenerateStaticDictionary(w, c)
    \/ \E w \in Workers : MatCheckDir(w)
    \/ \E w \in Workers : MatInner(w)
    \/ \E w \in Workers : MatExists(w)
    \/ \E w \in Workers : MatCreate(w)
    \/ \E w \in Workers : MatWrite(w)
    \/ \E w \in Workers : MatReturn(w)

RaceSpec == MatInit /\ [][RaceNext]_vars

\* a call of generate_static_dictionary by w for config c has returned Ok
ReturnedOk(w, c) ==
    \/ MatDone(w) /\ mz[w].op = "one" /\ mz[w].res = "Ok" /\ mz[w].cfgs = <<c>>
    \/ mz[w].pc = "idle" /\ mz[w].last.op = "one" /\ mz[w].last.ok
          /\ mz[w].last.cfgs = <<c>>

\* C18: when two workers run generate_static_dictionary on one directory
\* and no I/O operation fails, in every interleaving, once a call has
\* returned Ok no file of its config is missing, empty or partly written,
\* then or later: the call does not return before the files are complete and
\* the other worker does not truncate them afterwards.
C18_CompleteOnceReturned ==
    \A w \in Workers, c \in ListConfigs :
        fault = "none" /\ ReturnedOk(w, c) =>
            \A f \in ManifestFiles(c) : files[f] \notin {"absent", "empty", "partial"}


(***************************************************************************)
(* OpenCC::convert_to_buffer (deprecated).                                 *)
(***************************************************************************)
\* line 307: Vec::with_capacity(length * 3)
BufferCapacity(length) == (length * 3) % (2 ^ SizeBits)

\* lines 302-308: CString::new(input_ref).unwrap() and the buffer
ConvertToBufferCall(w, h, s) ==
    /\ wk[w].pc = "idle"
    /\ hstate[h] = "live"
    /\ calls < MaxCalls
    /\ calls' = calls + 1
    /\ IF CStringNewErr(Bytes(s))
       THEN Set(w, [wk[w] EXCEPT !.pc = "done", !.op = "convert_to_buffer",
                       !.h = h, !.input = s, !.pre = wk[w].output,
                       !.res = Result("Panic", NoMsg, <<>>)])
       ELSE Set(w, [wk[w] EXCEPT !.pc = "tb_lock", !.op = "convert_to_buffer",
                       !.h = h, !.input = s, !.pre = wk[w].output,
                       !.cap = BufferCapacity(Len(Bytes(s)))])
    /\ UNCHANGED <<hstate, opencc, guard, poisoned, dict, opened, closed,
                   cError, nativeBufs, unguarded>>
    /\ UNCHANGED <<matVars, bufVars>>

\* line 310: lock().unwrap(); the pointer is not tested
ConvertToBufferLock(w) ==
    /\ wk[w].pc = "tb_lock"
    /\ LET h == wk[w].h IN
       /\ CanLock(h)
       /\ IF poisoned[h]
          THEN /\ Set(w, [wk[w] EXCEPT !.pc = "done",
                             !.trace = Append(@, "lock") \o <<"unlock">>,
                             !.res = Result("Panic", NoMsg, <<>>)])
               /\ UNCHANGED guard
          ELSE /\ Set(w, [wk[w] EXCEPT !.pc = "tb_native",
                             !.trace = Append(@, "lock")])
               /\ guard' = [guard EXCEPT ![h] = w]
    /\ UNCHANGED <<hstate, opencc, poisoned, dict, opened, closed, cError,
                   nativeBufs, unguarded, calls>>
    /\ UNCHANGED <<matVars, bufVars>>

\* lines 312-313: opencc_convert_utf8_to_buffer writes the converted bytes
\* and a trailing NUL at buffer_ptr and returns their number without the NUL,
\* or writes nothing and returns size_t::MAX
ConvertToBufferNative(w) ==
    /\ wk[w].pc = "tb_native"
    /\ LET h == wk[w].h IN
       /\ NativeUse(w, h)
       /\ \E ok \in BOOLEAN, e \in {NULL, w} :
             IF ok
             THEN /\ e = NULL
                  /\ Set(w, [wk[w] EXCEPT !.pc = "tb_ret",
                                !.nout = NativeConv(dict[h], wk[w].input),
                                !.size = Len(NativeConv(dict[h], wk[w].input)),
                                !.written = Len(NativeConv(dict[h], wk[w].input)) + 1,
                                !.trace = Append(@, "opencc_convert_utf8_to_buffer")])
                  /\ UNCHANGED cError
             ELSE /\ Set(w, [wk[w] EXCEPT !.pc = "tb_ret", !.size = SIZE_MAX,
                                !.trace = Append(@, "opencc_convert_utf8_to_buffer")])
                  /\ cError' = e
    /\ UNCHANGED <<hstate, opencc, guard, poisoned, dict, opened, closed,
                   nativeBufs, calls>>
    /\ UNCHANGED <<matVars, bufVars>>

\* lines 315-325: `if size > 0`, set_len(size), from_utf8(..).expect(..),
\* push_str, and the String returned.  A write or a length past the capacity
\* is undefined behaviour: the process may die, and a length past the
\* capacity makes from_utf8 read what is not the buffer's.
ConvertToBufferRet(w) ==
    /\ wk[w].pc = "tb_ret"
    /\ LET h == wk[w].h
           view == BufferView(wk[w].nout, wk[w].size)
           pastCap == wk[w].size > 0 /\ wk[w].size > wk[w].cap
           overrun == wk[w].written > wk[w].cap
       IN
       \E dies \in BOOLEAN :
          /\ dies => pastCap \/ overrun
          /\ IF dies
             THEN /\ Set(w, [wk[w] EXCEPT !.pc = "done",
                                !.res = Result("Abort", NoMsg, <<>>)])
                  /\ Unlock(h, TRUE)
             ELSE IF pastCap \/ (wk[w].size > 0 /\ ~FromUtf8Ok(view))
             THEN /\ Set(w, [wk[w] EXCEPT !.pc = "done",
                                !.trace = Append(@, "unlock"),
                                !.res = Result("Panic", NoMsg, <<>>)])
                  /\ Unlock(h, TRUE)
             ELSE /\ Set(w, [wk[w] EXCEPT !.pc = "done",
                                !.output = IF wk[w].size > 0
                                           THEN PushStr(@, view) ELSE @,
                                !.trace = Append(@, "unlock"),
                                !.res = Result("Ok", NoMsg,
                                           IF wk[w].size > 0
                                           THEN PushStr(wk[w].output, view)
                                           ELSE wk[w].output)])
                  /\ Unlock(h, FALSE)
    /\ UNCHANGED <<hstate, opencc, dict, opened, closed, cError, nativeBufs,
                   unguarded, calls>>
    /\ UNCHANGED <<matVars, bufVars>>

\* the shared handle used through convert_to_buffer
LegacyNext ==
    \/ \E w \in Workers, h \in Handles, p \in Paths : NewCall(w, h, p)
    \/ \E w \in Workers : NewOpen(w)
    \/ \E w \in Workers : NewRet(w)
    \/ \E w \in Workers, h \in Handles, s \in InputStrs : ConvertToBufferCall(w, h, s)
    \/ \E w \in Workers : ConvertToBufferLock(w)
    \/ \E w \in Workers : ConvertToBufferNative(w)
    \/ \E w \in Workers : ConvertToBufferRet(w)
    \/ \E w \in Workers : Return(w)
    \/ \E h \in Handles : Drop(h)

LegacySpec == Init /\ [][LegacyNext]_vars

\* C19: convert_to_buffer never lets the native call write past the capacity
\* 3 * byte_length(input) of its temporary buffer and never sets the length
\* of the buffer above that capacity, for every input and native outcome.
C19_WithinCapacity ==
    \A w \in Workers :
        wk[w].op = "convert_to_buffer" /\ wk[w].pc \in {"tb_ret", "done"} =>
            /\ wk[w].written <= wk[w].cap
            /\ wk[w].size > 0 => wk[w].size <= wk[w].cap
====
